---- MODULE Spec2Model ----
(***************************************************************************)
(* A model of gosnmp: the BER message codec (marshal.go), the transaction  *)
(* engine GoSNMP.send with its retry loop and deadlines, and the helper    *)
(* Partition.  Bytes are naturals 0..255, byte strings are sequences, and  *)
(* Go slices a[i:j] are SubSeq(a, i+1, j).                                 *)
(***************************************************************************)
EXTENDS Integers, Sequences, FiniteSets, TLC

\* ------------------------------------------------------------------------
\* Program constants
\* ------------------------------------------------------------------------

Sequence == 48
GetRequest == 160
GetNextRequest == 161
GetResponse == 162
SetRequest == 163
Trap == 164
GetBulkRequest == 165

Null == 5
Integer == 2
OctetString == 4
ObjectIdentifier == 6
ObjectDescription == 7
Boolean == 1
IPAddress == 64
Counter32 == 65
Gauge32 == 66
TimeTicks == 67
Opaque == 68
Counter64 == 70
Uinteger32 == 71
NoSuchObject == 128
NoSuchInstance == 129
EndOfMibView == 130

Version1 == 0
Version2c == 1

\* uint8 conversions wrap modulo this
Mod8 == 256

\* ------------------------------------------------------------------------
\* Go values held in an interface{}: one record shape for every variant
\* ------------------------------------------------------------------------

NilVal == [t |-> "nil", n |-> 0, b |-> <<>>]
IntVal(i) == [t |-> "int", n |-> i, b |-> <<>>]
StrVal(s) == [t |-> "str", n |-> 0, b |-> s]
OidVal(o) == [t |-> "oid", n |-> 0, b |-> o]
TagVal(tag, i, s) == [t |-> tag, n |-> i, b |-> s]

\* a[from:] of Go, 0-based
Slice(a, from) == SubSeq(a, from + 1, Len(a))

\* big-endian unsigned value of a byte string
RECURSIVE BEValue(_)
BEValue(bs) ==
    IF Len(bs) = 0 THEN 0
    ELSE BEValue(SubSeq(bs, 1, Len(bs) - 1)) * 256 + bs[Len(bs)]

\* minimal big-endian bytes of n > 0
RECURSIVE BEBytes(_)
BEBytes(n) == IF n = 0 THEN <<>> ELSE BEBytes(n \div 256) \o <<n % 256>>

\* A uint32 is its four bytes, most significant first (TLC's integers are
\* 32-bit signed, so 2^32 - 1 is no integer here).
\* uint32(n) of an int n in the signed 32-bit range: n modulo 2^32
U32(n) ==
    << (n \div 16777216) % 256, (n \div 65536) % 256, (n \div 256) % 256, n % 256 >>

\* x + 1 modulo 2^32
Inc32(x) ==
    IF x[4] < 255 THEN <<x[1], x[2], x[3], x[4] + 1>>
    ELSE IF x[3] < 255 THEN <<x[1], x[2], x[3] + 1, 0>>
    ELSE IF x[2] < 255 THEN <<x[1], x[2] + 1, 0, 0>>
    ELSE <<(x[1] + 1) % 256, 0, 0, 0>>

\* binary.Write(buf, binary.BigEndian, uint32)
BE32(id) == id

\* ------------------------------------------------------------------------
\* Length, integer and OID codecs (helpers the message codec calls)
\* ------------------------------------------------------------------------

\* BER definite length: short form up to 127, else 0x80|n and n bytes
LongLength(bs) == <<128 + Len(bs)>> \o bs
marshalLength(n) ==
    IF n <= 127 THEN [err |-> FALSE, bytes |-> <<n>>]
    ELSE [err |-> FALSE, bytes |-> LongLength(BEBytes(n))]

parseLongLength(bytes, numOctets) ==
    IF numOctets = 0 \/ numOctets > 2 \/ 2 + numOctets > Len(bytes)
    THEN [length |-> -1, cursor |-> 2 + numOctets]
    ELSE [length |-> BEValue(SubSeq(bytes, 3, 2 + numOctets)) + 2 + numOctets,
          cursor |-> 2 + numOctets]

\* (length of the whole TLV, header included; bytes of tag + length field).
\* length is -1 where the input has no decodable length.
parseLength(bytes) ==
    IF Len(bytes) < 2 THEN [length |-> Len(bytes), cursor |-> Len(bytes)]
    ELSE IF bytes[2] <= 127 THEN [length |-> bytes[2] + 2, cursor |-> 2]
    ELSE parseLongLength(bytes, bytes[2] - 128)

\* two's-complement big-endian, sign-extended from the leading byte
RECURSIVE parseIntAcc(_, _)
parseIntAcc(bs, acc) ==
    IF Len(bs) = 0 THEN acc ELSE parseIntAcc(Tail(bs), acc * 256 + bs[1])

parseInt(bs) ==
    parseIntAcc(Tail(bs), IF bs[1] >= 128 THEN bs[1] - 256 ELSE bs[1])

\* base-128 bytes of one subidentifier, high bit set on all but the last
RECURSIVE Base128(_, _)
Base128(n, last) ==
    IF n < 128 THEN <<(n % 128) + (IF last THEN 0 ELSE 128)>>
    ELSE Base128(n \div 128, FALSE) \o <<(n % 128) + (IF last THEN 0 ELSE 128)>>

\* the subidentifiers ids[lo..hi], each in base 128, concatenated
RECURSIVE marshalSubids(_, _, _)
marshalSubids(ids, lo, hi) ==
    IF lo > hi THEN <<>>
    ELSE IF lo = hi THEN Base128(ids[lo], TRUE)
    ELSE marshalSubids(ids, lo, (lo + hi) \div 2)
         \o marshalSubids(ids, (lo + hi) \div 2 + 1, hi)

marshalObjectIdentifier(ids) ==
    IF Len(ids) < 2 \/ ids[1] > 2 \/ (ids[1] < 2 /\ ids[2] > 39)
       \/ 40 * ids[1] + ids[2] > 255
    THEN [err |-> TRUE, bytes |-> <<>>]
    ELSE [err |-> FALSE,
          bytes |-> <<40 * ids[1] + ids[2]>> \o marshalSubids(ids, 3, Len(ids))]
marshalOID(name) == marshalObjectIdentifier(name.ids)

\* base-128 value of the bytes of one subidentifier
RECURSIVE Base128Value(_, _)
Base128Value(bs, acc) ==
    IF Len(bs) = 0 THEN acc ELSE Base128Value(Tail(bs), acc * 128 + (bs[1] % 128))

\* positions of the bytes that end a subidentifier (high bit clear)
Terminals(bs) == {i \in 1..Len(bs) : bs[i] < 128}
\* the k-th of them, and where its subidentifier starts
Terminal(ends, k) == CHOOSE i \in ends : Cardinality({j \in ends : j <= i}) = k
SubidStart(ends, i) == IF \E j \in ends : j < i
                       THEN 1 + CHOOSE j \in ends : j < i /\ \A l \in ends : l < i => l <= j
                       ELSE 1
SubidAt(bs, ends, i) == Base128Value(SubSeq(bs, SubidStart(ends, i), i), 0)

\* the subidentifiers after the first byte; a last byte with the high bit set
\* is a truncated subidentifier
parseSubids(bs, ends) ==
    IF Len(bs) > 0 /\ bs[Len(bs)] >= 128 THEN [err |-> TRUE, ids |-> <<>>]
    ELSE [err |-> FALSE,
          ids |-> [k \in 1..Cardinality(ends) |-> SubidAt(bs, ends, Terminal(ends, k))]]

parseObjectIdentifierTail(first, rest) ==
    IF rest.err THEN rest ELSE [err |-> FALSE, ids |-> first \o rest.ids]

parseObjectIdentifier(bs) ==
    IF Len(bs) = 0 THEN [err |-> TRUE, ids |-> <<>>]
    ELSE parseObjectIdentifierTail(
           IF bs[1] >= 80 THEN <<2, bs[1] - 80>> ELSE <<bs[1] \div 40, bs[1] % 40>>,
           parseSubids(Tail(bs), Terminals(Tail(bs))))

\* printed with a leading dot
oidToString(ids) == [dot |-> TRUE, ids |-> ids]

RawErr == [err |-> TRUE, val |-> NilVal, count |-> 0]
RawOk(v, n) == [err |-> FALSE, val |-> v, count |-> n]

parseRawOid(o, n) == IF o.err THEN RawErr ELSE RawOk(OidVal(o.ids), n)

parseRawPayload(tag, payload, n) ==
    IF tag = Integer
    THEN IF Len(payload) = 0 THEN RawErr ELSE RawOk(IntVal(parseInt(payload)), n)
    ELSE IF tag = OctetString THEN RawOk(StrVal(payload), n)
    ELSE IF tag = ObjectIdentifier THEN parseRawOid(parseObjectIdentifier(payload), n)
    ELSE RawErr

parseRawTLV(data, pl) ==
    IF pl.length < 0 \/ pl.length > Len(data) \/ pl.cursor > pl.length THEN RawErr
    ELSE parseRawPayload(data[1], SubSeq(data, pl.cursor + 1, pl.length), pl.length)

\* one Integer, OctetString or ObjectIdentifier TLV: (value, bytes consumed)
parseRawField(data) ==
    IF Len(data) = 0 THEN RawErr ELSE parseRawTLV(data, parseLength(data))

\* an unsigned big-endian number is kept as its digits base 256
RECURSIVE StripZeros(_)
StripZeros(bs) == IF Len(bs) > 0 /\ bs[1] = 0 THEN StripZeros(Tail(bs)) ELSE bs

ValErr == [err |-> TRUE, Type |-> 0, Value |-> NilVal]
ValOk(tag, v) == [err |-> FALSE, Type |-> tag, Value |-> v]

decodeOid(tag, o) == IF o.err THEN ValErr ELSE ValOk(tag, OidVal(o.ids))

decodePayload(tag, payload) ==
    IF tag = Integer
    THEN IF Len(payload) = 0 THEN ValErr ELSE ValOk(tag, IntVal(parseInt(payload)))
    ELSE IF tag \in {OctetString, Opaque, ObjectDescription} THEN ValOk(tag, StrVal(payload))
    ELSE IF tag \in {Null, NoSuchObject, NoSuchInstance, EndOfMibView}
         THEN IF Len(payload) # 0 THEN ValErr ELSE ValOk(tag, NilVal)
    ELSE IF tag = ObjectIdentifier THEN decodeOid(tag, parseObjectIdentifier(payload))
    ELSE IF tag = IPAddress
         THEN IF Len(payload) # 4 THEN ValErr ELSE ValOk(tag, TagVal("ip", 0, payload))
    ELSE IF tag \in {Counter32, Gauge32, TimeTicks, Uinteger32, Counter64}
         THEN ValOk(tag, TagVal("uint", 0, StripZeros(payload)))
    ELSE IF tag = Boolean
         THEN IF Len(payload) # 1 THEN ValErr
              ELSE ValOk(tag, TagVal("bool", IF payload[1] = 0 THEN 0 ELSE 1, <<>>))
    ELSE ValErr

decodeTLV(data, pl) ==
    IF pl.length < 0 \/ pl.length > Len(data) \/ pl.cursor > pl.length THEN ValErr
    ELSE decodePayload(data[1], SubSeq(data, pl.cursor + 1, pl.length))

\* one varbind value TLV, by tag
decodeValue(data) ==
    IF Len(data) = 0 THEN ValErr ELSE decodeTLV(data, parseLength(data))

\* ------------------------------------------------------------------------
\* Marshalling (marshal.go)
\* ------------------------------------------------------------------------

MarshalErr == [st |-> "err", bytes |-> <<>>]
MarshalPanic == [st |-> "panic", bytes |-> <<>>]
MarshalOk(bs) == [st |-> "ok", bytes |-> bs]

\* tag, length, then the tail buf
WrapLength(tag, buf, ml) ==
    IF ml.err THEN MarshalErr ELSE MarshalOk(<<tag>> \o ml.bytes \o buf)
Wrap(tag, buf) == WrapLength(tag, buf, marshalLength(Len(buf)))

\* the Integer payload of a varbind: []byte{byte(pdu.Value.(int))}
intBytes(v) == <<v % Mod8>>

marshalNull(oid) ==
    <<Sequence, (Len(oid) + 4) % Mod8>>
    \o <<ObjectIdentifier, Len(oid) % Mod8>> \o oid
    \o <<Null, 0>>

marshalInteger(oid, ib) ==
    <<Sequence, (Len(oid) + Len(ib) + 4) % Mod8>>
    \o <<ObjectIdentifier, Len(oid) % Mod8>> \o oid
    \o <<Integer, Len(ib) % Mod8>> \o ib

marshalVarbindOID(pdu, o) ==
    IF o.err THEN MarshalErr
    ELSE IF pdu.Type = Null THEN MarshalOk(marshalNull(o.bytes))
    ELSE IF pdu.Type = Integer
         THEN IF pdu.Value.t # "int" THEN MarshalPanic
              ELSE MarshalOk(marshalInteger(o.bytes, intBytes(pdu.Value.n)))
    ELSE MarshalErr

marshalVarbind(pdu) == marshalVarbindOID(pdu, marshalOID(pdu.Name))

\* the varbinds in order; the first failure ends the loop
RECURSIVE marshalVarbinds(_, _)
marshalVarbindsNext(pdus, acc, vb) ==
    IF vb.st # "ok" THEN vb ELSE marshalVarbinds(Tail(pdus), acc \o vb.bytes)
marshalVarbinds(pdus, acc) ==
    IF Len(pdus) = 0 THEN MarshalOk(acc)
    ELSE marshalVarbindsNext(pdus, acc, marshalVarbind(pdus[1]))

marshalVBLWrap(vbl) == IF vbl.st # "ok" THEN vbl ELSE Wrap(Sequence, vbl.bytes)
marshalVBL(pdus) == marshalVBLWrap(marshalVarbinds(pdus, <<>>))

\* request ID, then non-repeaters/max-repetitions or two zero bytes
PDUHeaderNoBulk(packet, requestid) ==
    <<Integer, 4>> \o BE32(requestid) \o <<Integer, 1, 0, Integer, 1, 0>>
PDUHeader(packet, requestid) ==
    <<Integer, 4>> \o BE32(requestid)
    \o (IF packet.PDUType = GetBulkRequest
        THEN <<Integer, 1, packet.NonRepeaters, Integer, 1, packet.MaxRepetitions>>
        ELSE <<Integer, 1, 0, Integer, 1, 0>>)

marshalPDUWrap(packet, requestid, vbl) ==
    IF vbl.st # "ok" THEN vbl
    ELSE Wrap(packet.PDUType, PDUHeader(packet, requestid) \o vbl.bytes)
marshalPDU(packet, pdus, requestid) == marshalPDUWrap(packet, requestid, marshalVBL(pdus))

\* version and community
MsgHeader(packet) ==
    <<Integer, 1, packet.Version % Mod8>>
    \o <<OctetString, Len(packet.Community) % Mod8>> \o packet.Community

marshalMsgWrap(packet, pdu) ==
    IF pdu.st # "ok" THEN pdu ELSE Wrap(Sequence, MsgHeader(packet) \o pdu.bytes)
marshalMsg(packet, pdus, pdutype, requestID) ==
    marshalMsgWrap(packet, marshalPDU(packet, pdus, requestID))

\* ------------------------------------------------------------------------
\* Unmarshalling (marshal.go)
\* ------------------------------------------------------------------------

NoPacket ==
    [Version |-> 0, Community |-> <<>>, PDUType |-> 0, RequestID |-> U32(0), Error |-> 0,
     ErrorIndex |-> 0, NonRepeaters |-> 0, MaxRepetitions |-> 0, Variables |-> <<>>]

UnmarshalErr == [st |-> "err", pkt |-> NoPacket]
UnmarshalPanic == [st |-> "panic", pkt |-> NoPacket]
UnmarshalOk(p) == [st |-> "ok", pkt |-> p]

\* uint8(int) and uint32(int) of a decoded header field; 0 when it is no int
toUint8(val) == IF val.t = "int" THEN val.n % Mod8 ELSE 0
toUint32(val) == IF val.t = "int" THEN U32(val.n) ELSE U32(0)

\* the loop over the varbinds of unmarshalVBL, one operator per parsing step
RECURSIVE unmarshalVarbinds(_, _, _, _)
unmarshalVarbindValue(packet, cursor, vblLength, response, oid, v, valueLength) ==
    IF v.err THEN UnmarshalErr
    ELSE unmarshalVarbinds(packet, cursor + valueLength, vblLength,
           [response EXCEPT !.Variables =
              Append(@, [Name |-> oidToString(oid), Type |-> v.Type, Value |-> v.Value])])

unmarshalVarbindOid(packet, cursor, vblLength, response, rawOid) ==
    IF rawOid.err THEN UnmarshalErr
    ELSE IF rawOid.val.t # "oid" THEN UnmarshalErr
    ELSE unmarshalVarbindValue(packet, cursor + rawOid.count, vblLength, response,
           rawOid.val.b,
           decodeValue(Slice(packet, cursor + rawOid.count)),
           parseLength(Slice(packet, cursor + rawOid.count)).length)

unmarshalVarbind(packet, cursor, vblLength, response) ==
    IF cursor > Len(packet) THEN UnmarshalPanic
    ELSE unmarshalVarbindOid(packet, cursor, vblLength, response,
           parseRawField(Slice(packet, cursor)))

unmarshalVarbinds(packet, cursor, vblLength, response) ==
    IF ~(cursor < vblLength) THEN UnmarshalOk(response)
    ELSE IF packet[cursor + 1] # Sequence THEN UnmarshalErr
    ELSE unmarshalVarbind(packet, cursor + parseLength(Slice(packet, cursor)).cursor,
                          vblLength, response)

unmarshalVBLLength(packet, response, pl) ==
    IF Len(packet) # pl.length THEN UnmarshalErr
    ELSE unmarshalVarbinds(packet, pl.cursor, pl.length, response)

unmarshalVBL(packet, response, length) ==
    IF Len(packet) = 0 THEN UnmarshalPanic
    ELSE IF packet[1] # Sequence THEN UnmarshalErr
    ELSE unmarshalVBLLength(packet, response, parseLength(packet))

\* unmarshalResponse, one operator per header field
unmarshalSecond(packet, response, length, cursor, raw) ==
    IF raw.err THEN UnmarshalErr
    ELSE unmarshalVBL(Slice(packet, cursor + raw.count),
           IF response.PDUType = GetBulkRequest
           THEN [response EXCEPT !.MaxRepetitions = toUint8(raw.val)]
           ELSE [response EXCEPT !.ErrorIndex = toUint8(raw.val)],
           length)

unmarshalFirst(packet, response, length, cursor, raw) ==
    IF raw.err THEN UnmarshalErr
    ELSE unmarshalSecond(packet,
           IF response.PDUType = GetBulkRequest
           THEN [response EXCEPT !.NonRepeaters = toUint8(raw.val)]
           ELSE [response EXCEPT !.Error = toUint8(raw.val)],
           length, cursor + raw.count,
           parseRawField(Slice(packet, cursor + raw.count)))

unmarshalRequestID(packet, response, length, cursor, raw) ==
    IF raw.err THEN UnmarshalErr
    ELSE unmarshalFirst(packet, [response EXCEPT !.RequestID = toUint32(raw.val)],
           length, cursor + raw.count,
           parseRawField(Slice(packet, cursor + raw.count)))

unmarshalResponseLength(packet, response, length, pl) ==
    IF Len(packet) # pl.length THEN UnmarshalErr
    ELSE unmarshalRequestID(packet, response, length, pl.cursor,
           parseRawField(Slice(packet, pl.cursor)))

unmarshalResponse(packet, response, length, requestType) ==
    unmarshalResponseLength(packet, [response EXCEPT !.PDUType = requestType], length,
                            parseLength(packet))

\* unmarshal, one operator per field of the message
unmarshalPDUType(packet, response, length, cursor) ==
    IF cursor >= Len(packet) THEN UnmarshalPanic
    ELSE IF packet[cursor + 1] \in {GetResponse, GetNextRequest, GetBulkRequest}
         THEN unmarshalResponse(Slice(packet, cursor), response, length, packet[cursor + 1])
    ELSE UnmarshalErr

unmarshalCommunity(packet, response, length, cursor, raw) ==
    unmarshalPDUType(packet,
        IF raw.val.t = "str" THEN [response EXCEPT !.Community = raw.val.b] ELSE response,
        length, cursor + raw.count)

unmarshalVersion(packet, length, cursor, raw) ==
    IF raw.err THEN UnmarshalErr
    ELSE unmarshalCommunity(packet, [NoPacket EXCEPT !.Version = toUint8(raw.val)], length,
           cursor + raw.count, parseRawField(Slice(packet, cursor + raw.count)))

unmarshalLength(packet, pl) ==
    IF Len(packet) # pl.length THEN UnmarshalErr
    ELSE unmarshalVersion(packet, pl.length, pl.cursor,
                          parseRawField(Slice(packet, pl.cursor)))

unmarshal(packet) ==
    IF Len(packet) = 0 THEN UnmarshalPanic
    ELSE IF packet[1] # Sequence THEN UnmarshalErr
    ELSE unmarshalLength(packet, parseLength(packet))

\* ------------------------------------------------------------------------
\* The session and GoSNMP.send
\* ------------------------------------------------------------------------

VARIABLES
    Conn,           \* x.Conn # nil
    Timeout,        \* x.Timeout, in clock ticks
    Retries,        \* x.Retries
    requestID,      \* x.requestID
    now,            \* what time.Now() reads
    pc,             \* where send is: idle, top, attempt, read, done
    call,           \* the arguments of the call in progress: packetOut and pdus
    retries,        \* the loop counter of send
    err,            \* the named result err
    result,         \* the named result result
    allReqIDs,      \* IDs issued by the attempts of this call
    finalDeadline,
    reqDeadline,    \* the deadline set on the transport
    resp,           \* the datagram the last Read returned
    wire,           \* the datagram the last Write sent
    writes,         \* datagrams written by this call
    allTimedOut,    \* every attempt of this call so far ended in a read timeout
    issued,         \* every ID issued since Connect, in order
    connectID,      \* the value Connect set requestID to
    prevIDs,        \* the last ID issued by the latest completed call that issued one
    calls           \* calls started

engineVars ==
    <<Conn, Timeout, Retries, requestID, now, pc, call, retries, err, result, allReqIDs,
      finalDeadline, reqDeadline, resp, wire, writes, allTimedOut, issued, connectID,
      prevIDs, calls>>

\* The codec and Partition are exercised on their own: their inputs and results
VARIABLES
    cin,            \* the packet, varbinds and request ID given to marshalMsg
    cout,           \* what marshalMsg returned
    cback,          \* what unmarshal returned for those bytes
    cpc,            \* in, marshalled, unmarshalled
    ppos, psize, ptotal,   \* the arguments of Partition
    pres,           \* its result
    ppc             \* in, done

codecVars == <<cin, cout, cback, cpc>>
partVars == <<ppos, psize, ptotal, pres, ppc>>
vars == <<engineVars, codecVars, partVars>>

\* bounds of the model
MaxTimeout == 4
MaxRetries == 2
MaxCalls == 2

\* configurations: Timeout in ticks, Retries (negative is taken as 0)
Configs ==
    { <<MaxTimeout, MaxRetries>>, <<MaxTimeout - 1, MaxRetries>>,
      <<MaxTimeout, 0>>, <<MaxTimeout, -1>> }

Min(a, b) == IF a < b THEN a ELSE b

Err(kind, n) == [kind |-> kind, n |-> n]
NilErr == Err("nil", 0)
NilResult == [nil |-> TRUE, pkt |-> NoPacket]
SomeResult(p) == [nil |-> FALSE, pkt |-> p]

SeqRange(s) == {s[i] : i \in 1..Len(s)}

\* inputs: the community, OIDs and calls of the public API
public == <<112, 117, 98, 108, 105, 99>>
sysDescr == [dot |-> TRUE, ids |-> <<1, 3, 6, 1, 2, 1, 1, 1, 0>>]
badOid == [dot |-> TRUE, ids |-> <<1>>]

PacketOut(pdutype) ==
    [NoPacket EXCEPT !.Community = public, !.PDUType = pdutype, !.Version = Version2c]

\* Get, GetNext: each OID becomes SnmpPDU{oid, Null, nil}
Get(oids) ==
    [packetOut |-> PacketOut(GetRequest),
     pdus |-> [i \in 1..Len(oids) |-> [Name |-> oids[i], Type |-> Null, Value |-> NilVal]]]
GetNext(oids) ==
    [packetOut |-> PacketOut(GetNextRequest),
     pdus |-> [i \in 1..Len(oids) |-> [Name |-> oids[i], Type |-> Null, Value |-> NilVal]]]
\* Set passes the caller's single Integer PDU on
Set(pdus) == [packetOut |-> PacketOut(SetRequest), pdus |-> pdus]

\* no call in progress
NoCall == [packetOut |-> NoPacket, pdus |-> <<>>]

Calls ==
    { GetNext(<<sysDescr>>),
      Get(<<badOid>>),
      Set(<<[Name |-> sysDescr, Type |-> Integer, Value |-> NilVal]>>) }

\* values the random source of Connect may produce
ConnectIDs == { <<0, 0, 0, 4>>, <<255, 255, 255, 254>> }
\* an ID this session never issues
ForeignID == <<7, 7, 7, 7>>

\* what an agent answers: a GetResponse carrying id and varbinds
AgentReply(id, varbinds) ==
    marshalMsg([NoPacket EXCEPT !.Community = public, !.PDUType = GetResponse,
                                !.Version = Version2c],
               varbinds, GetResponse, id).bytes

helloVar == [Name |-> sysDescr, Type |-> Integer, Value |-> IntVal(7)]

\* datagrams that do not decode: a reply cut short, and one that ends after
\* the version field
Garbled ==
    { SubSeq(AgentReply(ForeignID, <<helloVar>>), 1, 20),
      <<Sequence, 3, Integer, 1, 1>> }

\* what a Read may return while this call waits
Datagrams ==
    { AgentReply(id, <<helloVar>>) : id \in SeqRange(allReqIDs) \cup prevIDs \cup {ForeignID} }
    \cup { AgentReply(requestID, <<>>), <<>> }
    \cup Garbled

\* Connect: dial succeeds, requestID takes a random value
Connect(id) ==
    /\ UNCHANGED <<codecVars, partVars>>
    /\ pc = "idle"
    /\ ~Conn
    /\ Conn' = TRUE
    /\ requestID' = id
    /\ connectID' = id
    /\ issued' = <<>>
    /\ UNCHANGED <<Timeout, Retries, now, pc, call, retries, err, result, allReqIDs,
                   finalDeadline, reqDeadline, resp, wire, writes, allTimedOut, prevIDs, calls>>

\* send up to the loop: the connection check, finalDeadline, Retries clamped
SendStart(c) ==
    /\ UNCHANGED <<codecVars, partVars>>
    /\ pc = "idle"
    /\ calls < MaxCalls
    /\ calls' = calls + 1
    /\ call' = c
    /\ retries' = 0
    /\ allReqIDs' = <<>>
    /\ writes' = 0
    /\ allTimedOut' = TRUE
    /\ result' = NilResult
    /\ IF ~Conn
       THEN /\ err' = Err("conn", 0)
            /\ pc' = "done"
            /\ UNCHANGED <<finalDeadline, Retries>>
       ELSE /\ err' = NilErr
            /\ finalDeadline' = now + Timeout
            /\ Retries' = IF Retries < 0 THEN 0 ELSE Retries
            /\ pc' = "attempt"
    /\ UNCHANGED <<Conn, Timeout, requestID, now, reqDeadline, resp, wire, issued,
                   connectID, prevIDs>>

\* time.Now().After(finalDeadline), line 148
DeadlinePassedAtOrAfter == now >= finalDeadline
DeadlinePassed == now > finalDeadline

\* retries > x.Retries, line 152
RetriesExhaustedLate == retries > Retries + 1
RetriesExhausted == retries > Retries

\* the head of the loop body on a retry: lines 144-157
LoopTop ==
    /\ UNCHANGED <<codecVars, partVars>>
    /\ pc = "top"
    /\ IF DeadlinePassed
       THEN /\ err' = Err("Timeout", retries - 1)
            /\ result' = NilResult
            /\ pc' = "done"
       ELSE IF RetriesExhausted
       THEN /\ result' = NilResult
            /\ pc' = "done"
            /\ UNCHANGED err
       ELSE /\ err' = NilErr
            /\ pc' = "attempt"
            /\ UNCHANGED result
    /\ resp' = <<>>
    /\ UNCHANGED <<Conn, Timeout, Retries, requestID, now, call, retries, allReqIDs,
                   finalDeadline, reqDeadline, wire, writes, allTimedOut, issued,
                   connectID, prevIDs, calls>>

\* the deadline of one attempt
ReqDeadline == now + Timeout \div (Retries + 1)

\* atomic.AddUint32(&x.requestID, 1)
NextReqIDSame == requestID
NextReqID == Inc32(requestID)

\* marshal and Write of one attempt, a marshal error retried like a write error
AttemptWriteRetry(out, writeFails) ==
    IF out.st = "panic"
    THEN /\ err' = Err("recover", 0)
         /\ pc' = "done"
         /\ allTimedOut' = FALSE
         /\ UNCHANGED <<result, retries, wire, writes>>
    ELSE IF out.st = "err" \/ writeFails
    THEN /\ err' = Err(IF out.st = "err" THEN "marshal" ELSE "write", 0)
         /\ retries' = retries + 1
         /\ pc' = "top"
         /\ allTimedOut' = FALSE
         /\ UNCHANGED <<result, wire, writes>>
    ELSE /\ wire' = out.bytes
         /\ writes' = writes + 1
         /\ pc' = "read"
         /\ UNCHANGED <<result, retries, err, allTimedOut>>

\* marshal and Write of one attempt: lines 166-177
AttemptWrite(out, writeFails) ==
    IF out.st = "err"
    THEN /\ err' = Err("marshal", 0)
         /\ result' = NilResult
         /\ pc' = "done"
         /\ allTimedOut' = FALSE
         /\ UNCHANGED <<retries, wire, writes>>
    ELSE IF out.st = "panic"
    THEN /\ err' = Err("recover", 0)
         /\ pc' = "done"
         /\ allTimedOut' = FALSE
         /\ UNCHANGED <<result, retries, wire, writes>>
    ELSE IF writeFails
    THEN /\ err' = Err("write", 0)
         /\ retries' = retries + 1
         /\ pc' = "top"
         /\ allTimedOut' = FALSE
         /\ UNCHANGED <<result, wire, writes>>
    ELSE /\ wire' = out.bytes
         /\ writes' = writes + 1
         /\ pc' = "read"
         /\ UNCHANGED <<result, retries, err, allTimedOut>>

\* one attempt up to the Write: deadline, request ID, marshal, write
Attempt(writeFails) ==
    /\ UNCHANGED <<codecVars, partVars>>
    /\ pc = "attempt"
    /\ reqDeadline' = ReqDeadline
    /\ requestID' = NextReqID
    /\ allReqIDs' = Append(allReqIDs, NextReqID)
    /\ issued' = Append(issued, NextReqID)
    /\ AttemptWrite(marshalMsg(call.packetOut, call.pdus, call.packetOut.PDUType, NextReqID),
                    writeFails)
    /\ UNCHANGED <<Conn, Timeout, Retries, now, call, finalDeadline, resp, connectID,
                   prevIDs, calls>>

\* Read fails: the deadline passed, or another socket error
ReadFails(timedOut) ==
    /\ UNCHANGED <<codecVars, partVars>>
    /\ pc = "read"
    /\ timedOut => now >= reqDeadline
    /\ err' = Err("read", 0)
    /\ allTimedOut' = (allTimedOut /\ timedOut)
    /\ retries' = retries + 1
    /\ pc' = "top"
    /\ UNCHANGED <<Conn, Timeout, Retries, requestID, now, call, result, allReqIDs,
                   finalDeadline, reqDeadline, resp, wire, writes, issued, connectID,
                   prevIDs, calls>>

\* is the response's ID one of this call's: lines 200-205
ValidIDLast(pkt) == Len(allReqIDs) > 0 /\ allReqIDs[Len(allReqIDs)] = pkt.RequestID
ValidID(pkt) == \E i \in 1..Len(allReqIDs) : allReqIDs[i] = pkt.RequestID

\* unmarshal's outcome and the checks on the response: lines 190-212
Received(u) ==
    IF u.st = "panic"
    THEN /\ err' = Err("recover", 0)
         /\ pc' = "done"
         /\ UNCHANGED <<result, retries>>
    ELSE IF u.st = "err"
    THEN /\ err' = Err("decode", 0)
         /\ result' = NilResult
         /\ retries' = retries + 1
         /\ pc' = "top"
    ELSE IF Len(u.pkt.Variables) < 1
    THEN /\ err' = Err("decode nil", 0)
         /\ result' = SomeResult(u.pkt)
         /\ retries' = retries + 1
         /\ pc' = "top"
    ELSE IF ~ValidID(u.pkt)
    THEN /\ err' = Err("out of order", 0)
         /\ result' = SomeResult(u.pkt)
         /\ retries' = retries + 1
         /\ pc' = "top"
    ELSE /\ err' = NilErr
         /\ result' = SomeResult(u.pkt)
         /\ pc' = "done"
         /\ UNCHANGED retries

\* Read returns a datagram before the deadline
ReadData(d) ==
    /\ UNCHANGED <<codecVars, partVars>>
    /\ pc = "read"
    /\ now < reqDeadline
    /\ resp' = d
    /\ allTimedOut' = FALSE
    /\ Received(unmarshal(d))
    /\ UNCHANGED <<Conn, Timeout, Retries, requestID, now, call, allReqIDs, finalDeadline,
                   reqDeadline, wire, writes, issued, connectID, prevIDs, calls>>

\* time passes while send runs, until every deadline set has passed
Tick ==
    /\ UNCHANGED <<codecVars, partVars>>
    /\ pc \in {"top", "attempt", "read"}
    /\ (now <= finalDeadline \/ now < reqDeadline)
    /\ now' = now + 1
    /\ UNCHANGED <<Conn, Timeout, Retries, requestID, pc, call, retries, err, result,
                   allReqIDs, finalDeadline, reqDeadline, resp, wire, writes, allTimedOut,
                   issued, connectID, prevIDs, calls>>

\* send has returned: its locals and results are gone, the session is free for
\* the next call.  The clock is read from the moment the next call starts.
Return ==
    /\ UNCHANGED <<codecVars, partVars>>
    /\ pc = "done"
    /\ pc' = "idle"
    /\ prevIDs' = IF Len(allReqIDs) = 0 THEN prevIDs ELSE {requestID}
    /\ call' = NoCall
    /\ now' = 0
    /\ retries' = 0
    /\ err' = NilErr
    /\ result' = NilResult
    /\ allReqIDs' = <<>>
    /\ finalDeadline' = 0
    /\ reqDeadline' = 0
    /\ resp' = <<>>
    /\ wire' = <<>>
    /\ writes' = 0
    /\ allTimedOut' = TRUE
    /\ UNCHANGED <<Conn, Timeout, Retries, requestID, issued, connectID, calls>>

EngineInit ==
    /\ Conn = FALSE
    /\ \E c \in Configs : Timeout = c[1] /\ Retries = c[2]
    /\ requestID = U32(0)
    /\ now = 0
    /\ pc = "idle"
    /\ call = NoCall
    /\ retries = 0
    /\ err = NilErr
    /\ result = NilResult
    /\ allReqIDs = <<>>
    /\ finalDeadline = 0
    /\ reqDeadline = 0
    /\ resp = <<>>
    /\ wire = <<>>
    /\ writes = 0
    /\ allTimedOut = TRUE
    /\ issued = <<>>
    /\ connectID = U32(0)
    /\ prevIDs = {}
    /\ calls = 0

EngineNext ==
    \/ \E id \in ConnectIDs : Connect(id)
    \/ \E c \in Calls : SendStart(c)
    \/ LoopTop
    \/ \E writeFails \in BOOLEAN : Attempt(writeFails)
    \/ \E timedOut \in BOOLEAN : ReadFails(timedOut)
    \/ \E d \in Datagrams : ReadData(d)
    \/ Tick
    \/ Return

\* ------------------------------------------------------------------------
\* marshalMsg and unmarshal on their own
\* ------------------------------------------------------------------------

\* a community of 128 bytes
longCommunity == [i \in 1..128 |-> 97]
\* an OID whose encoding takes 125 bytes
longOid == [dot |-> TRUE, ids |-> [i \in 1..126 |-> IF i = 1 THEN 1 ELSE 3]]
ifIndex == [dot |-> TRUE, ids |-> <<1, 3, 6, 1, 2, 1, 2, 2, 1, 1, 300>>]
noDot == [dot |-> FALSE, ids |-> <<1, 3, 6, 1, 2, 1, 1, 1, 0>>]

NullPDU(name) == [Name |-> name, Type |-> Null, Value |-> NilVal]
IntegerPDU(x) == [Name |-> sysDescr, Type |-> Integer, Value |-> IntVal(x)]

\* values of a SET Integer, around each change of encoded length
IntSamples ==
    { 0, 1, -1, 127, -128, 128, -129, 255, 256, 32767, -32768, 32768, -32769,
      8388607, -8388608, 8388608, 2147483647, -2147483647 - 1 }

VarLists ==
    { <<>>, <<NullPDU(sysDescr)>>, <<NullPDU(sysDescr), NullPDU(ifIndex)>>,
      <<NullPDU(noDot)>>, <<NullPDU(longOid)>>, <<NullPDU(badOid)>>,
      <<[Name |-> sysDescr, Type |-> OctetString, Value |-> StrVal(public)]>>,
      <<[Name |-> sysDescr, Type |-> Integer, Value |-> NilVal]>> }
    \cup { <<IntegerPDU(x)>> : x \in IntSamples }

\* error, error index, non-repeaters, max-repetitions
HeaderFields == { <<0, 0, 0, 0>>, <<2, 1, 0, 0>>, <<0, 0, 2, 10>>, <<0, 0, 200, 255>> }

CodecPackets ==
    { [Version |-> v, Community |-> c, PDUType |-> t, RequestID |-> U32(0),
       Error |-> h[1], ErrorIndex |-> h[2], NonRepeaters |-> h[3],
       MaxRepetitions |-> h[4], Variables |-> vl] :
         v \in {Version1, Version2c}, c \in {<<>>, public, longCommunity},
         t \in {GetRequest, GetNextRequest, GetResponse, SetRequest, GetBulkRequest},
         h \in HeaderFields, vl \in VarLists }

CodecIDs == { <<0, 0, 0, 1>>, <<255, 255, 255, 255>> }

NoInput == [packet |-> NoPacket, id |-> U32(0)]

CodecIdle ==
    /\ cin = NoInput
    /\ cout = MarshalErr
    /\ cback = UnmarshalErr
    /\ cpc = "in"

CodecInit ==
    /\ cin \in [packet : CodecPackets, id : CodecIDs]
    /\ cout = MarshalErr
    /\ cback = UnmarshalErr
    /\ cpc = "in"

\* marshalMsg on the packet, its varbinds and the request ID
Marshal ==
    /\ cpc = "in"
    /\ cout' = marshalMsg(cin.packet, cin.packet.Variables, cin.packet.PDUType, cin.id)
    /\ cpc' = "marshalled"
    /\ UNCHANGED <<cin, cback, engineVars, partVars>>

\* unmarshal on the bytes marshalMsg returned
Unmarshal ==
    /\ cpc = "marshalled"
    /\ cout.st = "ok"
    /\ cback' = unmarshal(cout.bytes)
    /\ cpc' = "unmarshalled"
    /\ UNCHANGED <<cin, cout, engineVars, partVars>>

\* ------------------------------------------------------------------------
\* Partition
\* ------------------------------------------------------------------------

MaxTotal == 7
MaxSize == 4

PartitionNoLast(currentPosition, partitionSize, sliceLength) ==
    IF currentPosition < 0 \/ currentPosition >= sliceLength THEN FALSE
    ELSE IF partitionSize = 1 THEN TRUE
    ELSE currentPosition % partitionSize = partitionSize - 1

Partition(currentPosition, partitionSize, sliceLength) ==
    IF currentPosition < 0 \/ currentPosition >= sliceLength THEN FALSE
    ELSE IF partitionSize = 1 THEN TRUE
    ELSE IF currentPosition % partitionSize = partitionSize - 1 THEN TRUE
    ELSE IF currentPosition = sliceLength - 1 THEN TRUE
    ELSE FALSE

PartIdle ==
    /\ ppos = 0
    /\ psize = 1
    /\ ptotal = 0
    /\ pres = FALSE
    /\ ppc = "in"

PartInit ==
    /\ ppos \in -1..MaxTotal
    /\ psize \in 1..MaxSize
    /\ ptotal \in 0..MaxTotal
    /\ pres = FALSE
    /\ ppc = "in"

PartitionCall ==
    /\ ppc = "in"
    /\ pres' = Partition(ppos, psize, ptotal)
    /\ ppc' = "done"
    /\ UNCHANGED <<ppos, psize, ptotal, engineVars, codecVars>>

\* ------------------------------------------------------------------------
\* Specifications
\* ------------------------------------------------------------------------

EngineIdle ==
    /\ Conn = FALSE
    /\ Timeout = MaxTimeout
    /\ Retries = MaxRetries
    /\ requestID = U32(0)
    /\ now = 0
    /\ pc = "idle"
    /\ call = NoCall
    /\ retries = 0
    /\ err = NilErr
    /\ result = NilResult
    /\ allReqIDs = <<>>
    /\ finalDeadline = 0
    /\ reqDeadline = 0
    /\ resp = <<>>
    /\ wire = <<>>
    /\ writes = 0
    /\ allTimedOut = TRUE
    /\ issued = <<>>
    /\ connectID = U32(0)
    /\ prevIDs = {}
    /\ calls = 0

\* the session and send
Init == EngineInit /\ CodecIdle /\ PartIdle
Next == EngineNext
Spec == Init /\ [][Next]_vars

\* the message codec
CodecNext == Marshal \/ Unmarshal
InitCodec == EngineIdle /\ CodecInit /\ PartIdle
SpecCodec == InitCodec /\ [][CodecNext]_vars

\* Partition
InitPartition == EngineIdle /\ CodecIdle /\ PartInit
NextPartition == PartitionCall
SpecPartition == InitPartition /\ [][NextPartition]_vars

\* ------------------------------------------------------------------------
\* Properties
\* ------------------------------------------------------------------------

\* send has returned and every attempt it made ended in a read timeout
AllAttemptsTimedOut == pc = "done" /\ allTimedOut /\ retries >= 1

\* C1 as stated: one call writes at most Retries+1 datagrams, and exactly
\* Retries+1 whenever every attempt ended in a read timeout.
C1_ExactlyRetriesPlusOne ==
    /\ writes <= (IF Retries < 0 THEN 0 ELSE Retries) + 1
    /\ AllAttemptsTimedOut => writes = Retries + 1

\* C1 amended: one call writes at most Retries+1 datagrams; when every attempt
\* ended in a read timeout it wrote exactly Retries+1, unless a retry found the
\* clock past finalDeadline and send stopped with Timeout after fewer retries.
C1_AtMostRetriesPlusOne ==
    /\ writes <= (IF Retries < 0 THEN 0 ELSE Retries) + 1
    /\ (AllAttemptsTimedOut /\ ~(err.kind = "Timeout" /\ err.n < Retries))
         => writes = Retries + 1
    /\ (AllAttemptsTimedOut /\ err.kind = "Timeout" /\ err.n < Retries)
         => (writes = err.n + 1 /\ now > finalDeadline)

C1_Witness ==
    AllAttemptsTimedOut /\ Retries = MaxRetries /\ writes = MaxRetries + 1

\* C2 as stated: after Retries+1 attempts that all ended in a read timeout send
\* returns Timeout with retries_done = Retries, not the read error.
C2_TimeoutReported ==
    (AllAttemptsTimedOut /\ retries = Retries + 1) => err = Err("Timeout", Retries)

\* C2 amended: after Retries+1 attempts that all ended in a read timeout send
\* returns no response and an error: Timeout with retries_done = Retries when the
\* clock is strictly after finalDeadline, else the last read error.
C2_TimeoutOrReadError ==
    (AllAttemptsTimedOut /\ retries = Retries + 1)
      => /\ result.nil
         /\ err = IF now > finalDeadline THEN Err("Timeout", Retries) ELSE Err("read", 0)

C2_Witness ==
    /\ AllAttemptsTimedOut /\ retries = Retries + 1 /\ Retries = MaxRetries
    /\ err = Err("Timeout", MaxRetries)

\* the step in which Read returned a datagram (resp' holds it)
RxStep == pc = "read" /\ pc' # "read" /\ err'.kind # "read"

\* the datagram decodes to a response with at least one variable
WellFormed(d) == unmarshal(d).st = "ok" /\ Len(unmarshal(d).pkt.Variables) >= 1

\* IDs of the attempts before the current one
EarlierIDs == {allReqIDs[i] : i \in 1..(Len(allReqIDs) - 1)}

\* C3: a well-formed, non-empty response carrying the ID of an earlier attempt
\* of the same call is accepted: send returns it with a nil error.
C3_EarlierAttemptAccepted ==
    [][(RxStep /\ WellFormed(resp') /\ unmarshal(resp').pkt.RequestID \in EarlierIDs)
         => (pc' = "done" /\ err' = NilErr /\ result' = SomeResult(unmarshal(resp').pkt))]_vars

C3_Witness ==
    /\ pc = "done" /\ err = NilErr /\ ~result.nil
    /\ Len(allReqIDs) = MaxRetries + 1
    /\ result.pkt.RequestID = allReqIDs[1]

\* C4 as stated: send never returns a response whose request ID no attempt of
\* the same call issued.
C4_OnlyOwnIDsReturned ==
    (pc = "done" /\ ~result.nil) => result.pkt.RequestID \in SeqRange(allReqIDs)

\* b = a + 1 modulo 2^32, on the 16-bit halves of the two numbers
Hi16(x) == x[1] * 256 + x[2]
Lo16(x) == x[3] * 256 + x[4]
IsSucc32(a, b) ==
    IF Lo16(a) < 65535
    THEN Lo16(b) = Lo16(a) + 1 /\ Hi16(b) = Hi16(a)
    ELSE Lo16(b) = 0 /\ Hi16(b) = (Hi16(a) + 1) % 65536

\* C5: every attempt takes the previous issued ID plus 1 modulo 2^32, from the
\* value Connect set; the datagram written carries it; the attempts of one call
\* have distinct IDs.
C5_RequestIDsIncrease ==
    /\ \A i \in 1..Len(issued) :
         IsSucc32(IF i = 1 THEN connectID ELSE issued[i - 1], issued[i])
    /\ \A i \in 1..Len(allReqIDs) :
         allReqIDs[i] = issued[Len(issued) - Len(allReqIDs) + i]
    /\ \A i, j \in 1..Len(allReqIDs) : i # j => allReqIDs[i] # allReqIDs[j]
    /\ pc = "read" =>
         /\ unmarshal(wire).st = "ok"
         /\ unmarshal(wire).pkt.RequestID = issued[Len(issued)]

C5_Witness ==
    /\ pc = "read" /\ calls = MaxCalls /\ Len(allReqIDs) = MaxRetries + 1
    /\ \E i \in 1..Len(allReqIDs) : allReqIDs[i] = U32(0)

\* C6 as stated: the deadline an attempt sets on the transport is
\* min(now + Timeout/(Retries+1), finalDeadline).
C6_DeadlineClipped ==
    [][(pc = "attempt" /\ pc' # "attempt")
         => reqDeadline' = Min(now + Timeout \div (Retries + 1), finalDeadline)]_vars

\* the packet marshalMsg was given, as unmarshal should give it back
Expected == [cin.packet EXCEPT !.RequestID = cin.id]

RoundTrips(p) ==
    /\ p.PDUType \in {GetNextRequest, GetResponse, GetBulkRequest}
    /\ p.Error = 0 /\ p.ErrorIndex = 0
    /\ p.PDUType # GetBulkRequest => (p.NonRepeaters = 0 /\ p.MaxRepetitions = 0)
    /\ Len(p.Community) <= 127
    /\ \A i \in 1..Len(p.Variables) :
         /\ p.Variables[i].Name.dot
         /\ Len(marshalOID(p.Variables[i].Name).bytes) <= 122
         /\ p.Variables[i].Type = Null => p.Variables[i].Value = NilVal
         /\ p.Variables[i].Type = Integer =>
              (p.Variables[i].Value.n >= -128 /\ p.Variables[i].Value.n <= 127)

RECURSIVE Minimal(_)
Minimal(bs) ==
    IF Len(bs) > 1 /\ ((bs[1] = 0 /\ bs[2] < 128) \/ (bs[1] = 255 /\ bs[2] >= 128))
    THEN Minimal(Tail(bs))
    ELSE bs
MinimalInteger(x) == <<Integer, Len(Minimal(U32(x)))>> \o Minimal(U32(x))

EndsWith(bs, tail) ==
    Len(bs) >= Len(tail) /\ SubSeq(bs, Len(bs) - Len(tail) + 1, Len(bs)) = tail

\* a SET of one Integer varbind was marshalled
SetOfInteger ==
    /\ cpc = "marshalled" /\ cout.st = "ok"
    /\ cin.packet.PDUType = SetRequest
    /\ Len(cin.packet.Variables) = 1
    /\ cin.packet.Variables[1].Type = Integer

\* C8 as stated: the Integer TLV emitted for SET {Integer, x} is the minimal
\* two's-complement encoding of x, and decodes to x.
C8_MinimalInteger ==
    SetOfInteger =>
        /\ EndsWith(cout.bytes, MinimalInteger(cin.packet.Variables[1].Value.n))
        /\ decodeValue(MinimalInteger(cin.packet.Variables[1].Value.n)).Value
             = cin.packet.Variables[1].Value

\* C9: inside [0, total) and for size >= 1, Partition is true exactly when
\* position = total-1 or (position+1) mod size = 0, that is exactly at the last
\* position of each slab [k*size, min((k+1)*size, total)).
C9_PartitionBoundaries ==
    (ppc = "done" /\ ppos >= 0 /\ ppos < ptotal) =>
        /\ pres <=> (ppos = ptotal - 1 \/ (ppos + 1) % psize = 0)
        /\ pres <=> (ppos = Min((ppos \div psize + 1) * psize, ptotal) - 1)

C9_Witness ==
    /\ ppc = "done" /\ pres /\ psize > 1
    /\ ppos = ptotal - 1 /\ (ppos + 1) % psize # 0

\* C10 as stated: a datagram that fails to unmarshal, read while retries and
\* time remain, is recorded as the last error and the loop goes on.
C10_GarbledRetried ==
    [][(RxStep /\ unmarshal(resp').st # "ok" /\ retries < Retries /\ now <= finalDeadline)
         => (pc' = "top" /\ err' = Err("decode", 0))]_vars

\* the step that makes one attempt (deadline, request ID, marshal, write)
AttemptStep == pc = "attempt" /\ pc' # "attempt"

\* marshalMsg returns an error for the packet of the call in progress
MarshalFails ==
    marshalMsg(call.packetOut, call.pdus, call.packetOut.PDUType, NextReqID).st = "err"

\* C11: when marshalling fails, send returns at once with the marshal error and
\* no response: that attempt writes no datagram, and no further attempt and no
\* read follow, even if retries and time remain.
C11_MarshalFailureImmediate ==
    /\ [][(AttemptStep /\ MarshalFails)
            => /\ pc' = "done" /\ err' = Err("marshal", 0) /\ result' = NilResult
               /\ writes' = writes /\ wire' = wire /\ retries' = retries]_vars
    /\ [](err.kind = "marshal" => (pc = "done" /\ result.nil))

C11_Witness ==
    /\ pc = "done" /\ err = Err("marshal", 0) /\ writes = 0
    /\ Retries = MaxRetries /\ retries = 0 /\ now < finalDeadline

\* the header of the TLV that bs starts with, read by the BER rules for a
\* definite length: the tag, the header's byte count, the payload's byte count
TLVHeader(bs) ==
    IF Len(bs) < 2 THEN [ok |-> FALSE, tag |-> 0, hlen |-> 0, plen |-> 0]
    ELSE IF bs[2] < 128 THEN [ok |-> TRUE, tag |-> bs[1], hlen |-> 2, plen |-> bs[2]]
    ELSE IF bs[2] = 128 \/ bs[2] - 128 > 3 \/ Len(bs) < 2 + (bs[2] - 128)
    THEN [ok |-> FALSE, tag |-> bs[1], hlen |-> 0, plen |-> 0]
    ELSE [ok |-> TRUE, tag |-> bs[1], hlen |-> 2 + (bs[2] - 128),
          plen |-> BEValue(SubSeq(bs, 3, 2 + (bs[2] - 128)))]

\* bs starts with a TLV of this tag whose length field counts exactly n bytes,
\* all of them present
StartsWithTLV(bs, tag, n) ==
    /\ TLVHeader(bs).ok /\ TLVHeader(bs).tag = tag
    /\ TLVHeader(bs).plen = n /\ Len(bs) >= TLVHeader(bs).hlen + n

\* bs is one TLV of this tag and nothing else
IsTLV(bs, tag) ==
    TLVHeader(bs).ok /\ TLVHeader(bs).tag = tag
      /\ Len(bs) = TLVHeader(bs).hlen + TLVHeader(bs).plen

TLVPayload(bs) == SubSeq(bs, TLVHeader(bs).hlen + 1, TLVHeader(bs).hlen + TLVHeader(bs).plen)
TLVRest(bs) == Slice(bs, TLVHeader(bs).hlen + TLVHeader(bs).plen)

\* vb is one varbind Sequence: the ObjectIdentifier TLV of the name, then one
\* value TLV up to the end
ExactVarbind(vb, oid) ==
    /\ IsTLV(vb, Sequence)
    /\ StartsWithTLV(TLVPayload(vb), ObjectIdentifier, Len(oid))
    /\ TLVPayload(TLVPayload(vb)) = oid
    /\ IsTLV(TLVRest(TLVPayload(vb)), TLVHeader(TLVRest(TLVPayload(vb))).tag)

\* bs is the varbind Sequences of pdus[i..], one after the other
RECURSIVE ExactVarbinds(_, _, _)
ExactVarbinds(bs, pdus, i) ==
    IF i > Len(pdus) THEN bs = <<>>
    ELSE /\ TLVHeader(bs).ok
         /\ Len(bs) >= TLVHeader(bs).hlen + TLVHeader(bs).plen
         /\ ExactVarbind(SubSeq(bs, 1, TLVHeader(bs).hlen + TLVHeader(bs).plen),
                         marshalOID(pdus[i].Name).bytes)
         /\ ExactVarbinds(TLVRest(bs), pdus, i + 1)

\* pdu is the PDU TLV: request ID, two one-byte integers, the varbind list
ExactPDU(pdu, packet) ==
    /\ IsTLV(pdu, packet.PDUType)
    /\ Len(TLVPayload(pdu)) >= 12
    /\ IsTLV(Slice(TLVPayload(pdu), 12), Sequence)
    /\ ExactVarbinds(TLVPayload(Slice(TLVPayload(pdu), 12)), packet.Variables, 1)

\* msg is the outer Sequence: version, the community OctetString, the PDU
ExactMsg(msg, packet) ==
    /\ IsTLV(msg, Sequence)
    /\ Len(TLVPayload(msg)) >= 3
    /\ StartsWithTLV(Slice(TLVPayload(msg), 3), OctetString, Len(packet.Community))
    /\ TLVPayload(Slice(TLVPayload(msg), 3)) = packet.Community
    /\ ExactPDU(TLVRest(Slice(TLVPayload(msg), 3)), packet)

\* C12 as stated: in every message marshalMsg produces, the length field of the
\* outer Sequence, the community, the PDU, the varbind list, each varbind and
\* each ObjectIdentifier equals the byte count of its payload.
C12_ExactLengths ==
    (cpc = "marshalled" /\ cout.st = "ok") => ExactMsg(cout.bytes, cin.packet)

\* ------------------------------------------------------------------------
\* unmarshal on datagrams an agent sends
\* ------------------------------------------------------------------------

\* the BER Integer of x, -32768 <= x <= 32767, in the fewest bytes
AgentInteger(x) ==
    IF x >= 0 /\ x <= 127 THEN <<Integer, 1, x>>
    ELSE IF x >= -128 /\ x < 0 THEN <<Integer, 1, 256 + x>>
    ELSE IF x > 127 THEN <<Integer, 2, x \div 256, x % 256>>
    ELSE <<Integer, 2, (65536 + x) \div 256, (65536 + x) % 256>>

\* a TLV of fewer than 128 payload bytes
AgentTLV(tag, payload) == <<tag, Len(payload)>> \o payload

\* the varbind .1.3.6.1.2.1.1.1.0 = OctetString "hello"
AgentVarbind ==
    AgentTLV(Sequence,
        AgentTLV(ObjectIdentifier, <<43, 6, 1, 2, 1, 1, 1, 0>>)
        \o AgentTLV(OctetString, <<104, 101, 108, 108, 111>>))

\* a version 2c message of the given PDU type with request ID 1, the two
\* integers of the PDU header, and one varbind
AgentDatagram(pdutype, first, second) ==
    AgentTLV(Sequence,
        <<Integer, 1, Version2c>> \o AgentTLV(OctetString, public)
        \o AgentTLV(pdutype,
              <<Integer, 4, 0, 0, 0, 1>> \o AgentInteger(first) \o AgentInteger(second)
              \o AgentTLV(Sequence, AgentVarbind)))

\* header integers around the limits of an unsigned byte
FieldValues == { 0, 2, 127, 128, 255, 256, 300, -1, -129 }

AgentDatagrams ==
    { AgentDatagram(t, f, g) : t \in {GetResponse, GetBulkRequest},
                               f \in FieldValues, g \in FieldValues }

\* a datagram has been read and is about to be unmarshalled
DecodeInit ==
    /\ cin = NoInput
    /\ cout \in { MarshalOk(d) : d \in AgentDatagrams }
    /\ cback = UnmarshalErr
    /\ cpc = "marshalled"

InitDecode == EngineIdle /\ DecodeInit /\ PartIdle
NextDecode == Unmarshal
SpecDecode == InitDecode /\ [][NextDecode]_vars

\* the two's-complement value of the content bytes of an Integer (1 or 2 bytes)
SignedValue(bs) ==
    IF bs[1] < 128 THEN BEValue(bs)
    ELSE BEValue(bs) - (IF Len(bs) = 1 THEN 256 ELSE 65536)

\* the PDU's payload in a message, and its two header integers after the
\* request ID
PDUPayload(msg) == TLVPayload(TLVRest(Slice(TLVPayload(msg), 3)))
FirstField(msg) == SignedValue(TLVPayload(Slice(PDUPayload(msg), 6)))
SecondField(msg) == SignedValue(TLVPayload(TLVRest(Slice(PDUPayload(msg), 6))))

FitsUint8(x) == x >= 0 /\ x <= 255

\* C13 as stated: when error-status, error-index, non-repeaters or
\* max-repetitions in the datagram is below 0 or above 255, unmarshal fails;
\* it never returns a packet whose field holds the value modulo 256.
C13_ValueOutOfRange ==
    cpc = "unmarshalled" =>
        /\ (~FitsUint8(FirstField(cout.bytes)) \/ ~FitsUint8(SecondField(cout.bytes)))
             => cback.st = "err"
        /\ (cback.st = "ok" /\ cback.pkt.PDUType = GetBulkRequest)
             => /\ cback.pkt.NonRepeaters = FirstField(cout.bytes)
                /\ cback.pkt.MaxRepetitions = SecondField(cout.bytes)
        /\ (cback.st = "ok" /\ cback.pkt.PDUType # GetBulkRequest)
             => /\ cback.pkt.Error = FirstField(cout.bytes)
                /\ cback.pkt.ErrorIndex = SecondField(cout.bytes)

\* C14 as stated: on every exit of send exactly one of the two results is set:
\* a response only with a nil error, an error only with a nil response, also
\* when a panic is recovered after an earlier attempt parsed a rejected response.
C14_ExactlyOneResult ==
    pc = "done" => (result.nil <=> err # NilErr)

====
